---------------------------- MODULE Spec2Model ----------------------------
(* A model of the Account facade (balances lookups, liquidityUnrealizedPnl, *)
(* drip, lyraStaking) and of fetchLiquidityHistory.                         *)
(*                                                                          *)
(* Strings are sequences of one-character strings, so that toLowerCase is   *)
(* computed character by character. BigNumber values are integers; UNIT is  *)
(* 10^Decimals with a reduced number of decimals, since the arithmetic of   *)
(* the source is arbitrary-precision and nothing in it depends on 18.       *)
EXTENDS Integers, Sequences, FiniteSets, TLC

VARIABLES
  op,       \* the operation invoked last ("none" before the first call)
  input,    \* its inputs: arguments and the remote state it reads
  lists,    \* the lists captured by the AccountBalances object
  pc,       \* position of the async function that is running
  reads,    \* lyraStaking: state of each of the five promises
  values,   \* lyraStaking: the values array of Promise.all, by index
  last,     \* lyraStaking: index of the promise that settled last
  calls,    \* the external calls the operation has made, in order
  ret       \* outcome of the operation

vars == <<op, input, lists, pc, reads, values, last, calls, ret>>

----------------------------------------------------------------------------
(* Outcomes *)

NoRet == [kind |-> "none"]
Return(v) == [kind |-> "return", value |-> v]
Throw(m) == [kind |-> "throw", message |-> m]

----------------------------------------------------------------------------
(* Strings *)

LowerOf(c) ==
  CASE c = "A" -> "a"
    [] c = "B" -> "b"
    [] c = "C" -> "c"
    [] c = "S" -> "s"
    [] c = "U" -> "u"
    [] c = "X" -> "x"
    [] c = "Z" -> "z"
    [] OTHER -> c

toLowerCase(s) == [i \in DOMAIN s |-> LowerOf(s[i])]

\* Array.prototype.find over the outcomes of its predicate: the first index
\* whose element satisfies it, 0 if none does
RECURSIVE FindFrom(_, _)
FindFrom(hits, i) ==
  IF i > Len(hits) THEN 0
  ELSE IF hits[i] THEN i
  ELSE FindFrom(hits, i + 1)

find(hits) == FindFrom(hits, 1)

includes(arr, x) == \E i \in DOMAIN arr : arr[i] = x

----------------------------------------------------------------------------
(* Account.balances(): the three lookups *)

stableMatches(e, tokenAddressOrName) ==
  \/ toLowerCase(e.address) = toLowerCase(tokenAddressOrName)
  \/ toLowerCase(e.symbol) = toLowerCase(tokenAddressOrName)

stableNoLowerArg(stables, tokenAddressOrName) ==
  LET i == find([k \in DOMAIN stables |->
                   \/ toLowerCase(stables[k].address) = tokenAddressOrName
                   \/ toLowerCase(stables[k].symbol) = tokenAddressOrName])
  IN IF i = 0 THEN Throw("Stable token does not exist") ELSE Return(stables[i])

stable(stables, tokenAddressOrName) ==
  LET i == find([k \in DOMAIN stables |->
                   stableMatches(stables[k], tokenAddressOrName)])
  IN IF i = 0 THEN Throw("Stable token does not exist") ELSE Return(stables[i])

baseMatches(e, tokenOrMarketAddressOrName) ==
  \/ includes(<<toLowerCase(e.marketAddress), toLowerCase(e.address)>>,
              toLowerCase(tokenOrMarketAddressOrName))
  \/ toLowerCase(e.symbol) = toLowerCase(tokenOrMarketAddressOrName)

baseNoMarket(bases, tokenOrMarketAddressOrName) ==
  LET i == find([k \in DOMAIN bases |->
                   \/ toLowerCase(bases[k].address) =
                        toLowerCase(tokenOrMarketAddressOrName)
                   \/ toLowerCase(bases[k].symbol) =
                        toLowerCase(tokenOrMarketAddressOrName)])
  IN IF i = 0 THEN Throw("Base token does not exist") ELSE Return(bases[i])

base(bases, tokenOrMarketAddressOrName) ==
  LET i == find([k \in DOMAIN bases |->
                   baseMatches(bases[k], tokenOrMarketAddressOrName)])
  IN IF i = 0 THEN Throw("Base token does not exist") ELSE Return(bases[i])

optionTokenMatches(e, tokenOrMarketAddress) ==
  includes(<<toLowerCase(e.marketAddress), toLowerCase(e.address)>>,
           toLowerCase(tokenOrMarketAddress))

optionTokenLast(optionTokens, tokenOrMarketAddress) ==
  LET M == {i \in DOMAIN optionTokens :
              optionTokenMatches(optionTokens[i], tokenOrMarketAddress)}
  IN IF M = {} THEN Throw("Option token does not exist")
     ELSE Return(optionTokens[CHOOSE i \in M : \A j \in M : j <= i])

optionToken(optionTokens, tokenOrMarketAddress) ==
  LET i == find([k \in DOMAIN optionTokens |->
                   optionTokenMatches(optionTokens[k], tokenOrMarketAddress)])
  IN IF i = 0 THEN Throw("Option token does not exist") ELSE Return(optionTokens[i])

----------------------------------------------------------------------------
(* Inputs of the lookups *)

MaxEntries == 2

xA == <<"x", "A">>
xa == <<"x", "a">>
xB == <<"x", "B">>
xC == <<"x", "C">>
sU == <<"s", "U">>
Su == <<"S", "u">>

StableEntries ==
  [address : {xA, xa, xB}, symbol : {sU, Su}]
BaseEntries ==
  [marketAddress : {xC, xa}, address : {xA, xB}, symbol : {sU, Su}]
OptionTokenEntries ==
  [marketAddress : {xC, xa}, address : {xA, xB}]

Identifiers ==
  {xA, xa, xB, xC, sU, Su,
   <<"X", "A">>, <<"x", "b">>, <<"X", "c">>, <<"s", "u">>, <<"S", "U">>,
   <<"x">>, <<"z", "z">>, <<>>}

ListsOf(S) == UNION {[1..n -> S] : n \in 0..MaxEntries}

DefaultStables == <<[address |-> xB, symbol |-> sU]>>
DefaultBases == <<[marketAddress |-> xC, address |-> xA, symbol |-> Su]>>
DefaultOptionTokens == <<[marketAddress |-> xa, address |-> xB]>>

\* what getAccountBalancesAndAllowances may resolve to
Responses ==
  {[stables |-> s, bases |-> DefaultBases, optionTokens |-> DefaultOptionTokens] :
     s \in ListsOf(StableEntries)}
  \cup
  {[stables |-> DefaultStables, bases |-> b, optionTokens |-> DefaultOptionTokens] :
     b \in ListsOf(BaseEntries)}
  \cup
  {[stables |-> DefaultStables, bases |-> DefaultBases, optionTokens |-> o] :
     o \in ListsOf(OptionTokenEntries)}

NoLists == [stables |-> <<>>, bases |-> <<>>, optionTokens |-> <<>>]
NoReads == [i \in 1..5 |-> "idle"]
NoValues == <<>>

----------------------------------------------------------------------------
(* BigNumber arithmetic and numbers *)

Decimals == 2

UNIT == 10 ^ Decimals
ZERO_BN == 0
ONE_BN == 1 * UNIT

Abs(a) == IF a < 0 THEN -a ELSE a

\* BigNumber.div: throws on a zero divisor, truncates toward zero otherwise
div(a, b) ==
  IF b = 0 THEN Throw("division-by-zero")
  ELSE LET q == Abs(a) \div Abs(b)
       IN Return(IF (a < 0) # (b < 0) THEN -q ELSE q)

RECURSIVE Gcd(_, _)
Gcd(a, b) == IF b = 0 THEN a ELSE Gcd(b, a % b)

\* a JavaScript number, kept exact as a fraction in lowest terms
Number(n, d) ==
  LET g == Gcd(Abs(n), d)
  IN [num |-> n \div g, den |-> d \div g]

\* fromBigNumber: the 18-decimal fixed-point integer as a number
fromBigNumber(bn) == Number(bn, UNIT)

----------------------------------------------------------------------------
(* fetchLiquidityHistory *)

utilizationUnguarded(NAVBN, freeLiquidityBN) ==
  LET q == div((NAVBN - freeLiquidityBN) * UNIT, NAVBN)
  IN IF q.kind = "throw" THEN q ELSE Return(fromBigNumber(q.value))

utilization(NAVBN, freeLiquidityBN) ==
  IF NAVBN > 0
  THEN LET q == div((NAVBN - freeLiquidityBN) * UNIT, NAVBN)
       IN IF q.kind = "throw" THEN q ELSE Return(fromBigNumber(q.value))
  ELSE Return(Number(0, 1))

\* the callback of data.map
marketLiquidityEntry(marketTotalValueSnapshot) ==
  LET freeLiquidityBN == marketTotalValueSnapshot.freeLiquidity
      NAVBN == marketTotalValueSnapshot.NAV
      u == utilization(NAVBN, freeLiquidityBN)
  IN IF u.kind = "throw" THEN u
     ELSE Return([freeLiquidity |-> freeLiquidityBN,
                  totalQueuedDeposits |-> ZERO_BN,
                  nav |-> NAVBN,
                  utilization |-> u.value,
                  totalWithdrawingDeposits |-> ZERO_BN,
                  timestamp |-> marketTotalValueSnapshot.timestamp])

\* data.map(...): an exception of the callback ends the map
fetchLiquidityHistory(data) ==
  LET entries == [i \in DOMAIN data |-> marketLiquidityEntry(data[i])]
      thrown == {i \in DOMAIN data : entries[i].kind = "throw"}
  IN IF thrown # {}
     THEN entries[CHOOSE i \in thrown : \A j \in thrown : i <= j]
     ELSE Return([i \in DOMAIN data |-> entries[i].value])

MaxAmount == 4
MaxSnapshots == 2

\* the snapshots the indexer may return; the i-th carries timestamp i
SnapshotValues == [NAV : -1..MaxAmount, freeLiquidity : 0..MaxAmount]
SnapshotLists ==
  UNION {[1..n -> SnapshotValues] : n \in 0..MaxSnapshots}
WithTimestamps(l) ==
  [i \in DOMAIN l |->
     [NAV |-> l[i].NAV, freeLiquidity |-> l[i].freeLiquidity, timestamp |-> i]]

----------------------------------------------------------------------------
(* Account.liquidityUnrealizedPnl *)

pnlPercentUnguarded(tokenPrice, avgCostPerToken) ==
  LET q == div(tokenPrice * UNIT, avgCostPerToken)
  IN IF q.kind = "throw" THEN q ELSE Return(q.value - ONE_BN)

pnlPercent(tokenPrice, avgCostPerToken) ==
  IF avgCostPerToken > 0
  THEN LET q == div(tokenPrice * UNIT, avgCostPerToken)
       IN IF q.kind = "throw" THEN q ELSE Return(q.value - ONE_BN)
  ELSE Return(ZERO_BN)

liquidityUnrealizedPnl(balance, value, tokenPrice, avgCostPerToken) ==
  LET avgValue == div(avgCostPerToken * balance, UNIT)
      pp == pnlPercent(tokenPrice, avgCostPerToken)
  IN IF avgValue.kind = "throw" THEN avgValue
     ELSE IF pp.kind = "throw" THEN pp
     ELSE Return([pnl |-> value - avgValue.value, pnlPercent |-> pp.value])

MaxHalves == 3

\* fixed-point amounts: multiples of half a unit, and two tiny ones
Amounts == {k * (UNIT \div 2) : k \in 0..MaxHalves} \cup {1, 3}

----------------------------------------------------------------------------
(* Account.drip *)

Null == <<>>
Some(v) == <<v>>

Deployments == {"Kovan", "Local", "Mainnet"}

dripSupportedEverywhere(deployment) == TRUE

dripSupported(deployment) == includes(<<"Kovan", "Local">>, deployment)

FaucetTx == [to |-> "TestFaucet", from |-> "account", data |-> "drip"]

\* what the awaited buildTxWithGasEstimate may do: resolve to a transaction,
\* resolve to nothing, or reject with an error of the provider
BuilderOutcomes == {Return(Some(FaucetTx)), Return(Null), Throw("provider error")}

\* the synchronous part of drip, up to its await
dripCall(deployment) ==
  IF ~dripSupported(deployment)
  THEN [pc |-> "threw",
        ret |-> Throw("Faucet is only supported on local and kovan contracts"),
        calls |-> <<>>]
  ELSE [pc |-> "awaiting",
        ret |-> NoRet,
        calls |-> <<"getLyraContract(TestFaucet)", "encodeFunctionData(drip)",
                    "buildTxWithGasEstimate">>]

\* the continuation of drip after its await
dripResume(outcome) ==
  IF outcome.kind = "throw" THEN outcome
  ELSE IF outcome.value = Null
  THEN Throw("Failed to estimate gas for drip transaction")
  ELSE Return(outcome.value[1])

----------------------------------------------------------------------------
(* Account.lyraStaking *)

\* a number | null is Null or Some(n); !!x is false for null and for 0
Truthy(x) == x # Null /\ x[1] # 0

toNumber(bn) == bn

cooldownStartTimestamp(accountCooldown) ==
  IF accountCooldown > 0 THEN Some(accountCooldown) ELSE Null

cooldownEndTimestampUnguarded(accountCooldown, staking) ==
  Some(accountCooldown + staking.cooldownPeriod)

cooldownEndTimestamp(accountCooldown, staking) ==
  IF accountCooldown > 0 THEN Some(accountCooldown + staking.cooldownPeriod) ELSE Null

unstakeWindowEndTimestamp(unstakeWindowStartTimestamp, staking) ==
  IF Truthy(unstakeWindowStartTimestamp)
  THEN Some(unstakeWindowStartTimestamp[1] + staking.unstakeWindow)
  ELSE Null

isInUnstakeWindowExclusiveEnd(block, unstakeWindowStart, unstakeWindowEnd) ==
  /\ Truthy(unstakeWindowStart)
  /\ Truthy(unstakeWindowEnd)
  /\ block.timestamp >= unstakeWindowStart[1]
  /\ block.timestamp < unstakeWindowEnd[1]

isInUnstakeWindowNoStart(block, unstakeWindowStart, unstakeWindowEnd) ==
  /\ Truthy(unstakeWindowStart)
  /\ Truthy(unstakeWindowEnd)
  /\ block.timestamp <= unstakeWindowEnd[1]

isInUnstakeWindow(block, unstakeWindowStart, unstakeWindowEnd) ==
  /\ Truthy(unstakeWindowStart)
  /\ Truthy(unstakeWindowEnd)
  /\ block.timestamp >= unstakeWindowStart[1]
  /\ block.timestamp <= unstakeWindowEnd[1]

isInCooldownExclusiveStart(block, cooldownStart, cooldownEnd) ==
  /\ Truthy(cooldownStart)
  /\ Truthy(cooldownEnd)
  /\ block.timestamp > cooldownStart[1]
  /\ block.timestamp <= cooldownEnd[1]

isInCooldown(block, cooldownStart, cooldownEnd) ==
  /\ Truthy(cooldownStart)
  /\ Truthy(cooldownEnd)
  /\ block.timestamp >= cooldownStart[1]
  /\ block.timestamp <= cooldownEnd[1]

\* the computation after the await
lyraStakingResult(block, lyraBalance, stakedLyraBalance, staking, accountCooldownBN) ==
  LET accountCooldown == toNumber(accountCooldownBN)
      cooldownStart == cooldownStartTimestamp(accountCooldown)
      cooldownEnd == cooldownEndTimestamp(accountCooldown, staking)
      unstakeWindowStart == cooldownEnd
      unstakeWindowEnd == unstakeWindowEndTimestamp(unstakeWindowStart, staking)
  IN [staking |-> staking,
      lyraBalance |-> lyraBalance,
      stakedLyraBalance |-> stakedLyraBalance,
      isInUnstakeWindow |-> isInUnstakeWindow(block, unstakeWindowStart, unstakeWindowEnd),
      isInCooldown |-> isInCooldown(block, cooldownStart, cooldownEnd),
      unstakeWindowStartTimestamp |-> unstakeWindowStart,
      unstakeWindowEndTimestamp |-> unstakeWindowEnd]

\* The five promises handed to Promise.all, by index:
\* 1 getBlock('latest'), 2 lyraBalance(), 3 stakedLyraBalance(),
\* 4 lyra.lyraStaking(), 5 stakersCooldowns(address)
Reads == 1..5

ReadCalls == <<"getBlock", "lyraBalance", "stakedLyraBalance", "lyraStaking",
               "stakersCooldowns">>

\* what read i resolves to, given the remote state
RemoteValue(remote, i) ==
  CASE i = 1 -> remote.block
    [] i = 2 -> remote.lyraBalance
    [] i = 3 -> remote.stakedLyraBalance
    [] i = 4 -> remote.staking
    [] i = 5 -> remote.accountCooldownBN

\* Promise.all keeps each value at the index of its promise
storeInArrivalOrder(vals, i, v) ==
  LET free == {j \in DOMAIN vals : vals[j] = Null}
  IN [vals EXCEPT ![CHOOSE j \in free : \A k \in free : j <= k] = Some(v)]

store(vals, i, v) == [vals EXCEPT ![i] = Some(v)]

\* Promise.all is fulfilled once every promise is, rejected once any is
allFulfilled(rs) == \A i \in Reads : rs[i] = "fulfilled"
anyRejected(rs) == \E i \in Reads : rs[i] = "rejected"

\* the continuation of lyraStaking after its await, on fulfilment: the
\* destructured values are used, and a missing one would be a TypeError
lyraStakingResume(vals) ==
  IF \E i \in Reads : vals[i] = Null
  THEN Throw("TypeError")
  ELSE Return(lyraStakingResult(vals[1][1], vals[2][1], vals[3][1], vals[4][1],
                                vals[5][1]))

\* the error a failed read rejects with
ReadError(i) == <<"rejected", ReadCalls[i]>>

\* What the settling of read i does to the awaiting function: Promise.all
\* rejects with the first rejection and the function throws it; it fulfils
\* with the last fulfilment and the function computes its result; the
\* continuation runs before any other read can settle.
afterSettle(i, rs, vals) ==
  IF rs[i] = "rejected"
  THEN [pc |-> "threw", ret |-> Throw(ReadError(i))]
  ELSE IF allFulfilled(rs)
  THEN LET r == lyraStakingResume(vals)
       IN [pc |-> IF r.kind = "throw" THEN "threw" ELSE "returned", ret |-> r]
  ELSE [pc |-> "awaiting", ret |-> NoRet]

MaxCooldown == 2
MaxPeriod == 1
MaxWindow == 1
MaxTime == MaxCooldown + MaxPeriod + MaxWindow + 1

RemoteStates ==
  [block : [timestamp : 0..MaxTime],
   lyraBalance : [balance : {7}, stakingAllowance : {2}],
   stakedLyraBalance : [balance : {3}],
   staking : [cooldownPeriod : 0..MaxPeriod, unstakeWindow : 0..MaxWindow],
   accountCooldownBN : 0..MaxCooldown]

----------------------------------------------------------------------------
(* Actions *)

Init ==
  /\ op = "none"
  /\ input = [none |-> TRUE]
  /\ lists = NoLists
  /\ pc = "idle"
  /\ reads = NoReads
  /\ values = NoValues
  /\ last = 0
  /\ calls = <<>>
  /\ ret = NoRet

Balances ==
  /\ op = "none"
  /\ \E r \in Responses : lists' = r
  /\ op' = "balances"
  /\ pc' = "returned"
  /\ ret' = NoRet
  /\ calls' = <<"getAccountBalancesAndAllowances">>
  /\ UNCHANGED <<input, reads, values, last>>

HasBalances == op \in {"balances", "stable", "base", "optionToken"}

Stable ==
  /\ HasBalances
  /\ \E id \in Identifiers :
       /\ input' = [id |-> id]
       /\ ret' = stable(lists.stables, id)
  /\ op' = "stable"
  /\ UNCHANGED <<lists, pc, reads, values, last, calls>>

Base ==
  /\ HasBalances
  /\ \E id \in Identifiers :
       /\ input' = [id |-> id]
       /\ ret' = base(lists.bases, id)
  /\ op' = "base"
  /\ UNCHANGED <<lists, pc, reads, values, last, calls>>

OptionToken ==
  /\ HasBalances
  /\ \E id \in Identifiers :
       /\ input' = [id |-> id]
       /\ ret' = optionToken(lists.optionTokens, id)
  /\ op' = "optionToken"
  /\ UNCHANGED <<lists, pc, reads, values, last, calls>>

FetchLiquidityHistory ==
  /\ op = "none"
  /\ \E l \in SnapshotLists :
       LET data == WithTimestamps(l)
       IN /\ input' = [data |-> data]
          /\ ret' = fetchLiquidityHistory(data)
  /\ op' = "fetchLiquidityHistory"
  /\ pc' = IF ret'.kind = "throw" THEN "threw" ELSE "returned"
  /\ calls' = <<"fetchSnapshots">>
  /\ UNCHANGED <<lists, reads, values, last>>

LiquidityUnrealizedPnl ==
  /\ op = "none"
  /\ \E balance \in Amounts, value \in Amounts, tokenPrice \in Amounts,
        avgCostPerToken \in Amounts :
       /\ input' = [balance |-> balance, value |-> value, tokenPrice |-> tokenPrice,
                    avgCostPerToken |-> avgCostPerToken]
       /\ ret' = liquidityUnrealizedPnl(balance, value, tokenPrice, avgCostPerToken)
  /\ op' = "liquidityUnrealizedPnl"
  /\ pc' = IF ret'.kind = "throw" THEN "threw" ELSE "returned"
  /\ calls' = <<"liquidityTokenBalance", "liquidityDeposits", "liquidityWithdrawals">>
  /\ UNCHANGED <<lists, reads, values, last>>

Drip ==
  /\ op = "none"
  /\ \E d \in Deployments :
       /\ input' = [deployment |-> d]
       /\ pc' = dripCall(d).pc
       /\ ret' = dripCall(d).ret
       /\ calls' = dripCall(d).calls
  /\ op' = "drip"
  /\ UNCHANGED <<lists, reads, values, last>>

DripResume ==
  /\ op = "drip"
  /\ pc = "awaiting"
  /\ \E outcome \in BuilderOutcomes :
       /\ input' = [deployment |-> input.deployment, tx |-> outcome]
       /\ ret' = dripResume(outcome)
  /\ pc' = IF ret'.kind = "throw" THEN "threw" ELSE "returned"
  /\ UNCHANGED <<op, lists, reads, values, last, calls>>

\* the synchronous part of lyraStaking: all five reads are started
LyraStaking ==
  /\ op = "none"
  /\ \E remote \in RemoteStates : input' = remote
  /\ op' = "lyraStaking"
  /\ pc' = "awaiting"
  /\ reads' = [i \in Reads |-> "pending"]
  /\ values' = [i \in Reads |-> Null]
  /\ calls' = <<"getLyraContract(LyraStakingModuleProxy)">> \o ReadCalls
  /\ UNCHANGED <<lists, last, ret>>

Fulfil(i) ==
  /\ op = "lyraStaking"
  /\ reads[i] = "pending"
  /\ reads' = [reads EXCEPT ![i] = "fulfilled"]
  /\ values' = store(values, i, RemoteValue(input, i))
  /\ last' = i
  /\ pc' = IF pc = "awaiting" THEN afterSettle(i, reads', values').pc ELSE pc
  /\ ret' = IF pc = "awaiting" THEN afterSettle(i, reads', values').ret ELSE ret
  /\ UNCHANGED <<op, input, lists, calls>>

Reject(i) ==
  /\ op = "lyraStaking"
  /\ reads[i] = "pending"
  /\ reads' = [reads EXCEPT ![i] = "rejected"]
  /\ last' = i
  /\ pc' = IF pc = "awaiting" THEN afterSettle(i, reads', values).pc ELSE pc
  /\ ret' = IF pc = "awaiting" THEN afterSettle(i, reads', values).ret ELSE ret
  /\ UNCHANGED <<op, input, lists, values, calls>>

Next ==
  \/ Drip
  \/ DripResume
  \/ LyraStaking
  \/ \E i \in Reads : Fulfil(i)
  \/ \E i \in Reads : Reject(i)
  \/ Balances
  \/ FetchLiquidityHistory
  \/ LiquidityUnrealizedPnl
  \/ Stable
  \/ Base
  \/ OptionToken

Spec == Init /\ [][Next]_vars

----------------------------------------------------------------------------
(* Properties *)

\* equality of strings up to letter case, stated without toLowerCase
CasePairs ==
  {<<"a", "A">>, <<"b", "B">>, <<"c", "C">>, <<"s", "S">>, <<"u", "U">>,
   <<"x", "X">>, <<"z", "Z">>}
SameLetter(c, d) == c = d \/ <<c, d>> \in CasePairs \/ <<d, c>> \in CasePairs
EqualsIgnoreCase(s, t) ==
  /\ Len(s) = Len(t)
  /\ \A i \in 1..Len(s) : SameLetter(s[i], t[i])

Least(M) == CHOOSE i \in M : \A j \in M : i <= j

\* C1: stable(id) returns the first entry whose address or symbol equals id
\* up to letter case, throws 'Stable token does not exist' exactly when no
\* entry matches, and gives the same outcome for every re-casing of id.
C1_StableLookup ==
  op = "stable" =>
    LET id == input.id
        M == {i \in DOMAIN lists.stables :
                \/ EqualsIgnoreCase(lists.stables[i].address, id)
                \/ EqualsIgnoreCase(lists.stables[i].symbol, id)}
    IN /\ (M = {}) <=> (ret = Throw("Stable token does not exist"))
       /\ (M = {}) <=> (ret.kind = "throw")
       /\ M # {} => ret = Return(lists.stables[Least(M)])
       /\ \A id2 \in Identifiers :
            EqualsIgnoreCase(id2, id) => stable(lists.stables, id2) = ret

\* two entries match, neither letter for letter, and the first is returned
C1_Witness ==
  /\ op = "stable"
  /\ ret.kind = "return"
  /\ Len(lists.stables) = 2
  /\ lists.stables[1] # lists.stables[2]
  /\ ret.value = lists.stables[1]
  /\ \A i \in 1..2 :
       /\ lists.stables[i].address # input.id
       /\ lists.stables[i].symbol # input.id
       /\ \/ EqualsIgnoreCase(lists.stables[i].address, input.id)
          \/ EqualsIgnoreCase(lists.stables[i].symbol, input.id)

\* C2: base(id) returns the first entry whose market address, token address
\* or symbol equals id up to letter case, and throws 'Base token does not
\* exist' exactly when no entry matches on any of the three fields.
C2_BaseLookup ==
  op = "base" =>
    LET id == input.id
        M == {i \in DOMAIN lists.bases :
                \/ EqualsIgnoreCase(lists.bases[i].marketAddress, id)
                \/ EqualsIgnoreCase(lists.bases[i].address, id)
                \/ EqualsIgnoreCase(lists.bases[i].symbol, id)}
    IN /\ (M = {}) <=> (ret = Throw("Base token does not exist"))
       /\ (M = {}) <=> (ret.kind = "throw")
       /\ M # {} => ret = Return(lists.bases[Least(M)])

\* the second entry is returned, matched by its market address only
C2_Witness ==
  /\ op = "base"
  /\ ret.kind = "return"
  /\ Len(lists.bases) = 2
  /\ ret.value = lists.bases[2]
  /\ lists.bases[1] # lists.bases[2]
  /\ lists.bases[2].marketAddress # input.id
  /\ EqualsIgnoreCase(lists.bases[2].marketAddress, input.id)
  /\ ~EqualsIgnoreCase(lists.bases[2].address, input.id)
  /\ ~EqualsIgnoreCase(lists.bases[2].symbol, input.id)

C3_Result ==
  LET id == input.id
      M == {i \in DOMAIN lists.optionTokens :
              \/ EqualsIgnoreCase(lists.optionTokens[i].marketAddress, id)
              \/ EqualsIgnoreCase(lists.optionTokens[i].address, id)}
  IN /\ (M = {}) <=> (ret = Throw("Option token does not exist"))
     /\ (M = {}) <=> (ret.kind = "throw")
     /\ M # {} => ret = Return(lists.optionTokens[Least(M)])

\* C3: every optionToken(id) call returns the first entry whose market
\* address or token address equals id up to letter case and throws 'Option
\* token does not exist' exactly when none matches; every lookup call leaves
\* the lists stables, bases and optionTokens as they were fetched.
C3_OptionTokenLookup ==
  [][/\ (op' \in {"stable", "base", "optionToken"} => lists' = lists)
     /\ (op' = "optionToken" => C3_Result')]_vars

\* a lookup that throws although the symbol-less list is not empty, made on
\* lists on which another lookup has already been made
C3_Witness ==
  /\ op = "optionToken"
  /\ ret = Throw("Option token does not exist")
  /\ Len(lists.optionTokens) = 2
  /\ input.id = xa
  /\ lists.stables = DefaultStables
  /\ lists.bases = DefaultBases

Returned == op = "lyraStaking" /\ pc = "returned"

\* C4: isInUnstakeWindow is true exactly when the stored cooldown c is
\* positive and c + cooldownPeriod <= t <= c + cooldownPeriod + unstakeWindow.
C4_IsInUnstakeWindow ==
  Returned =>
    LET c == input.accountCooldownBN
        t == input.block.timestamp
        start == c + input.staking.cooldownPeriod
        end == c + input.staking.cooldownPeriod + input.staking.unstakeWindow
    IN /\ ret.value.isInUnstakeWindow <=> (c > 0 /\ start <= t /\ t <= end)
       /\ (c > 0 /\ (t = start \/ t = end)) => ret.value.isInUnstakeWindow
       /\ (t = start - 1 \/ t = end + 1) => ~ret.value.isInUnstakeWindow

\* the block timestamp is the last second of a window longer than a second
C4_Witness ==
  /\ Returned
  /\ input.accountCooldownBN > 0
  /\ input.staking.unstakeWindow > 0
  /\ input.block.timestamp =
       input.accountCooldownBN + input.staking.cooldownPeriod
         + input.staking.unstakeWindow
  /\ ret.value.isInUnstakeWindow

\* C5: isInCooldown is true exactly when the stored cooldown c is positive
\* and c <= t <= c + cooldownPeriod.
C5_IsInCooldown ==
  Returned =>
    LET c == input.accountCooldownBN
        t == input.block.timestamp
        end == c + input.staking.cooldownPeriod
    IN /\ ret.value.isInCooldown <=> (c > 0 /\ c <= t /\ t <= end)
       /\ (c > 0 /\ (t = c \/ t = end)) => ret.value.isInCooldown
       /\ (t = c - 1 \/ t = end + 1) => ~ret.value.isInCooldown

\* the block timestamp is the first second of a cooldown longer than a second
C5_Witness ==
  /\ Returned
  /\ input.accountCooldownBN > 0
  /\ input.staking.cooldownPeriod > 0
  /\ input.block.timestamp = input.accountCooldownBN
  /\ ret.value.isInCooldown

\* C6: with c > 0 the window runs from c + cooldownPeriod to
\* c + cooldownPeriod + unstakeWindow (start <= end); with c = 0 both
\* timestamps are null and both booleans false, whatever the block timestamp.
C6_Window ==
  Returned =>
    LET c == input.accountCooldownBN
        cp == input.staking.cooldownPeriod
        uw == input.staking.unstakeWindow
        r == ret.value
    IN /\ c > 0 =>
            /\ r.unstakeWindowStartTimestamp = Some(c + cp)
            /\ r.unstakeWindowEndTimestamp = Some(c + cp + uw)
            /\ r.unstakeWindowStartTimestamp[1] <= r.unstakeWindowEndTimestamp[1]
       /\ c = 0 =>
            /\ r.unstakeWindowStartTimestamp = Null
            /\ r.unstakeWindowEndTimestamp = Null
            /\ ~r.isInCooldown
            /\ ~r.isInUnstakeWindow

\* no cooldown requested, while the block timestamp lies where the window of
\* a cooldown stored as 0 would be
C6_Witness ==
  /\ Returned
  /\ input.accountCooldownBN = 0
  /\ input.staking.cooldownPeriod > 0
  /\ input.block.timestamp = input.staking.cooldownPeriod
  /\ ret.value.unstakeWindowStartTimestamp = Null

\* C7: every snapshot yields an entry; with NAV <= 0 its utilization is 0 and
\* nothing is divided by NAV (no division by zero is thrown); with NAV > 0 it
\* is q / UNIT for q the quotient of (NAV - freeLiquidity) * UNIT by NAV,
\* truncated toward zero.
C7_Utilization ==
  op = "fetchLiquidityHistory" =>
    /\ ret.kind = "return"
    /\ Len(ret.value) = Len(input.data)
    /\ \A i \in DOMAIN input.data :
         LET NAV == input.data[i].NAV
             n == (NAV - input.data[i].freeLiquidity) * UNIT
             u == ret.value[i].utilization
             q == u.num * (UNIT \div u.den)
             r == n - q * NAV
         IN /\ NAV <= 0 => u = [num |-> 0, den |-> 1]
            /\ NAV > 0 =>
                 /\ u.den > 0
                 /\ UNIT % u.den = 0
                 /\ Abs(r) < NAV
                 /\ r # 0 => ((r < 0) <=> (n < 0))

\* a snapshot with NAV = 0 next to one whose quotient is negative and inexact
C7_Witness ==
  /\ op = "fetchLiquidityHistory"
  /\ ret.kind = "return"
  /\ Len(input.data) = 2
  /\ input.data[1].NAV = 0
  /\ input.data[1].freeLiquidity > 0
  /\ input.data[2].NAV = 3
  /\ input.data[2].freeLiquidity = 4
  /\ ret.value[1].utilization = [num |-> 0, den |-> 1]
  /\ ret.value[2].utilization.num < 0

\* C8: with an average cost of zero pnlPercent is zero, nothing is divided by
\* the average cost and pnl is the value of the balance; with a positive
\* average cost pnlPercent = tokenPrice * UNIT / avgCostPerToken - ONE_BN and
\* pnl = value - avgCostPerToken * balance / UNIT.
C8_UnrealizedPnl ==
  op = "liquidityUnrealizedPnl" =>
    LET avg == input.avgCostPerToken
    IN /\ ret.kind = "return"
       /\ avg = 0 =>
            /\ ret.value.pnlPercent = 0
            /\ ret.value.pnl = input.value
       /\ avg > 0 =>
            /\ ret.value.pnlPercent = ((input.tokenPrice * UNIT) \div avg) - ONE_BN
            /\ ret.value.pnl = input.value - ((avg * input.balance) \div UNIT)

\* no cost basis, a balance and a price
C8_Witness ==
  /\ op = "liquidityUnrealizedPnl"
  /\ input.avgCostPerToken = 0
  /\ input.balance > 0
  /\ input.tokenPrice > 0
  /\ input.value > 0
  /\ ret.kind = "return"
  /\ ret.value.pnl = input.value

\* C9: off Kovan and Local drip throws 'Faucet is only supported on local and
\* kovan contracts' having made no call (no faucet resolved, no transaction
\* requested) and never returns a transaction; on Kovan or Local it returns
\* the transaction the builder yields, and throws 'Failed to estimate gas for
\* drip transaction' when the builder yields nothing.
C9_Drip ==
  op = "drip" =>
    /\ input.deployment \notin {"Kovan", "Local"} =>
         /\ pc = "threw"
         /\ ret = Throw("Faucet is only supported on local and kovan contracts")
         /\ calls = <<>>
    /\ ret.kind = "return" => input.deployment \in {"Kovan", "Local"}
    /\ input.deployment \in {"Kovan", "Local"} =>
         /\ pc = "awaiting" => ret = NoRet
         /\ pc # "awaiting" =>
              /\ input.tx = Return(Some(FaucetTx)) => ret = Return(FaucetTx)
              /\ input.tx = Return(Null) =>
                   ret = Throw("Failed to estimate gas for drip transaction")

\* drip on Mainnet has thrown
C9_Witness ==
  /\ op = "drip"
  /\ input.deployment = "Mainnet"
  /\ pc = "threw"
  /\ ret.kind = "throw"

\* C10: all five reads are started by the call; each value is kept at the
\* index of its read; a result is returned only once all five are fulfilled,
\* and it is the result computed from the five remote values, whatever the
\* order of completion; once a read has failed no result is returned, and
\* the call throws only if a read has failed.
C10_JoinBeforeCompute ==
  op = "lyraStaking" =>
    /\ \A i \in Reads : reads[i] # "idle" /\ \E k \in DOMAIN calls : calls[k] = ReadCalls[i]
    /\ \A i \in Reads :
         values[i] = IF reads[i] = "fulfilled" THEN Some(RemoteValue(input, i)) ELSE Null
    /\ pc = "returned" =>
         /\ allFulfilled(reads)
         /\ ret = Return(lyraStakingResult(input.block, input.lyraBalance,
                                           input.stakedLyraBalance, input.staking,
                                           input.accountCooldownBN))
    /\ anyRejected(reads) => ret.kind # "return"
    /\ pc = "threw" <=> anyRejected(reads)
    /\ pc = "threw" => \E i \in Reads : reads[i] = "rejected" /\ ret = Throw(ReadError(i))
    /\ pc = "awaiting" => ret = NoRet

\* a result has been returned although the read started first settled last
C10_Witness ==
  /\ Returned
  /\ last = 1
  /\ ret.kind = "return"

\* C11: isInCooldown and isInUnstakeWindow are both true only when the block
\* timestamp is exactly the stored cooldown plus cooldownPeriod (the cooldown
\* end, which is the unstake window start, as returned); at every other
\* block timestamp at most one of the two is true.
C11_OverlapOnlyAtCooldownEnd ==
  Returned =>
    LET t == input.block.timestamp
        end == input.accountCooldownBN + input.staking.cooldownPeriod
    IN /\ (ret.value.isInCooldown /\ ret.value.isInUnstakeWindow) =>
            /\ t = end
            /\ ret.value.unstakeWindowStartTimestamp = Some(t)
       /\ t # end => ~(ret.value.isInCooldown /\ ret.value.isInUnstakeWindow)

\* both are true at the end of a cooldown, with a cooldown and a window that
\* each last longer than a second
C11_Witness ==
  /\ Returned
  /\ input.staking.cooldownPeriod > 0
  /\ input.staking.unstakeWindow > 0
  /\ input.block.timestamp = input.accountCooldownBN + input.staking.cooldownPeriod
  /\ ret.value.isInCooldown
  /\ ret.value.isInUnstakeWindow

============================================================================
